---- MODULE Spec2Model ----
(***************************************************************************)
(* Model of the contract coordinator of RethinkDB's table_contract layer:  *)
(* invisible_to_majority_of_set(), calculate_contract() and                *)
(* calculate_all_contracts() of                                            *)
(* clustering/table_contract/coordinator/calculate_contracts.cc, and of    *)
(* the proxy replica of                                                    *)
(* clustering/immediate_consistency/remote_replicator_server.cc.           *)
(*                                                                         *)
(* boost::optional<T> is modelled as a set with at most one element: {}    *)
(* is boost::none and {x} is boost::make_optional(x).                      *)
(***************************************************************************)
EXTENDS Integers, FiniteSets, Sequences, TLC

(***************************************************************************)
(* Bounds of the model.                                                    *)
(***************************************************************************)
\* state_timestamp_t values carried by acks are 1..MaxVersion
MaxVersion == 2

\* server_id_t values, ordered as the uuids are
Servers == {1, 2, 3}
\* the nil server_id_t (uuid nil), used by config.primary_replica
Nil == 0
Timestamps == 1..MaxVersion

(***************************************************************************)
(* contract_ack_t::state_t                                                 *)
(***************************************************************************)
AckStates ==
    {"primary_need_branch", "primary_ready", "secondary_need_primary",
     "secondary_streaming", "secondary_backfilling", "nothing"}

\* contract_ack_frag_t: state, optional version, optional branch
AckFrag(st, vers, br) == [state |-> st, version |-> vers, branch |-> br]

(***************************************************************************)
(* boost::optional helpers                                                 *)
(***************************************************************************)
None == {}
Some(x) == {x}
HasValue(o) == o # {}
Deref(o) == CHOOSE x \in o : TRUE

\* contract_t::primary_t
Primary(s, h) == [server |-> s, hand_over |-> h]

\* contract_t (the fields calculate_contract reads or writes)
Contract(r, v, t, p) == [replicas |-> r, voters |-> v, temp_voters |-> t, primary |-> p]

\* table_config_t::shard_t with voting_replicas() precomputed
ShardConfig(a, v, p) == [all_replicas |-> a, voting_replicas |-> v, primary_replica |-> p]

\* std::map<server_id_t, contract_ack_frag_t>::count(server)
AcksCount(acks, server) == IF server \in DOMAIN acks THEN 1 ELSE 0

(***************************************************************************)
(* invisible_to_majority_of_set(), lines 64-77.  conn is the set of keys   *)
(* of connections_map.                                                     *)
(***************************************************************************)
\* mutant: line 72 left out, a judge we cannot see is not counted
JudgeCounted_Pessimistic(s, target, conn) == <<s, target>> \in conn

\* the loop condition of lines 71-72 for one judge s
JudgeCounted(s, target, conn) ==
    (<<s, target>> \in conn) \/ ~(<<s, s>> \in conn)

invisible_to_majority_of_set(target, judges, conn) ==
    LET count == Cardinality({s \in judges : JudgeCounted(s, target, conn)})
    IN  ~(count > Cardinality(judges) \div 2)

(***************************************************************************)
(* calculate_contract(), lines 83-389, step by step.                       *)
(***************************************************************************)
\* mutant: line 103 left out
GrowReplicas_NoInsert(old_c, config) == old_c.replicas

\* line 103: new_c.replicas.insert(config.all_replicas)
GrowReplicas(old_c, config) == old_c.replicas \cup config.all_replicas

\* mutant: lines 115-116 left out, the primary is not counted
NumStreaming_StreamingOnly(old_c, config, acks) ==
    Cardinality({server \in config.voting_replicas :
        /\ server \in DOMAIN acks
        /\ acks[server].state = "secondary_streaming"})

\* lines 110-119: num_streaming
NumStreaming(old_c, config, acks) ==
    Cardinality({server \in config.voting_replicas :
        /\ server \in DOMAIN acks
        /\ \/ acks[server].state = "secondary_streaming"
           \/ (HasValue(old_c.primary) /\ Deref(old_c.primary).server = server)})

\* mutant: line 124 with >= for >
BeginVoterChange_AtLeastHalf(old_c, config, acks) ==
    /\ ~HasValue(old_c.temp_voters)
    /\ old_c.voters # config.voting_replicas
    /\ NumStreaming(old_c, config, acks) >= Cardinality(config.voting_replicas) \div 2

\* lines 108-131: should temp_voters be set in this invocation
BeginVoterChange(old_c, config, acks) ==
    /\ ~HasValue(old_c.temp_voters)
    /\ old_c.voters # config.voting_replicas
    /\ NumStreaming(old_c, config, acks) > Cardinality(config.voting_replicas) \div 2

\* mutant: lines 145-146 left out, any ack of the primary commits
CommitVoterChange_AnyAck(old_c, acks) ==
    /\ HasValue(old_c.temp_voters)
    /\ HasValue(old_c.primary)
    /\ AcksCount(acks, Deref(old_c.primary).server) = 1

\* lines 135-154: should the voter change be committed in this invocation
CommitVoterChange(old_c, acks) ==
    /\ HasValue(old_c.temp_voters)
    /\ HasValue(old_c.primary)
    /\ AcksCount(acks, Deref(old_c.primary).server) = 1
    /\ acks[Deref(old_c.primary).server].state = "primary_ready"

\* mutant: line 148 takes the voting replicas of the config
NewVoters_FromConfig(old_c, config, acks) ==
    IF CommitVoterChange(old_c, acks) THEN config.voting_replicas ELSE old_c.voters

\* new_c.voters after line 154
NewVoters(old_c, config, acks) ==
    IF CommitVoterChange(old_c, acks) THEN Deref(old_c.temp_voters) ELSE old_c.voters

\* new_c.temp_voters after line 154
NewTempVoters(old_c, config, acks) ==
    IF BeginVoterChange(old_c, config, acks) THEN Some(config.voting_replicas)
    ELSE IF CommitVoterChange(old_c, acks) THEN None
    ELSE old_c.temp_voters

\* mutant: lines 163-167 left out, a replica need not be a voter
VisibleVoters_AnyReplica(old_c, config, acks, conn) ==
    LET voters == NewVoters(old_c, config, acks)
        temp_voters == NewTempVoters(old_c, config, acks)
    IN  {server \in GrowReplicas(old_c, config) :
            /\ ~invisible_to_majority_of_set(server, voters, conn)
            /\ (HasValue(temp_voters) =>
                    ~invisible_to_majority_of_set(server, Deref(temp_voters), conn))}

\* lines 161-178: visible_voters
VisibleVoters(old_c, config, acks, conn) ==
    LET voters == NewVoters(old_c, config, acks)
        temp_voters == NewTempVoters(old_c, config, acks)
    IN  {server \in GrowReplicas(old_c, config) :
            /\ ~(/\ server \notin voters
                 /\ (~HasValue(temp_voters) \/ server \notin Deref(temp_voters)))
            /\ ~invisible_to_majority_of_set(server, voters, conn)
            /\ (HasValue(temp_voters) =>
                    ~invisible_to_majority_of_set(server, Deref(temp_voters), conn))}

\* lines 183-188: the servers erased from new_c.replicas
PrunedReplicas(old_c, config, acks) ==
    LET voters == NewVoters(old_c, config, acks)
        temp_voters == NewTempVoters(old_c, config, acks)
    IN  {server \in old_c.replicas :
            /\ server \notin config.all_replicas
            /\ server \notin voters
            /\ (~HasValue(temp_voters) \/ server \notin Deref(temp_voters))}

\* new_c.replicas at return
NewReplicas(old_c, config, acks) ==
    GrowReplicas(old_c, config) \ PrunedReplicas(old_c, config, acks)

\* lines 182-198: should_kill_primary after the pruning loop
KillPrunedPrimary(old_c, config, acks) ==
    /\ HasValue(old_c.primary)
    /\ Deref(old_c.primary).server \in PrunedReplicas(old_c, config, acks)

(***************************************************************************)
(* Election of a primary, lines 209-294.                                   *)
(***************************************************************************)
\* lines 222-228: the (timestamp, server) pairs pushed to sorted_candidates
CandidatePairs(voters, acks) ==
    {<<Deref(acks[server].version), server>> :
        server \in {s \in voters :
            AcksCount(acks, s) = 1 /\ acks[s].state = "secondary_need_primary"}}

\* operator< of std::pair<state_timestamp_t, server_id_t>
PairLess(a, b) == a[1] < b[1] \/ (a[1] = b[1] /\ a[2] < b[2])

\* line 229: std::sort of the pairs
RECURSIVE SortPairs(_)
SortPairs(S) ==
    IF S = {} THEN <<>>
    ELSE LET m == CHOOSE x \in S : \A y \in S : x = y \/ PairLess(x, y)
         IN  <<m>> \o SortPairs(S \ {m})

sorted_candidates(voters, acks) == SortPairs(CandidatePairs(voters, acks))

\* mutant: lines 247-251 left out, candidates with the same timestamp
\* later in the list are not counted
UpToDateCount_NoTies(sorted, i, count) == count

\* lines 244-252: up_to_date_count for the candidate at (1-based) index i,
\* count being the current value of the loop variable
RECURSIVE UpToDateCount(_, _, _)
UpToDateCount(sorted, i, count) ==
    IF count < Len(sorted) /\ sorted[count + 1][1] = sorted[i][1]
    THEN UpToDateCount(sorted, i, count + 1)
    ELSE count

\* mutant: line 255 with >= for >
IsEligible_AtLeastHalf(sorted, i, voters, visible_voters) ==
    /\ sorted[i][2] \in visible_voters
    /\ UpToDateCount(sorted, i, i) >= Cardinality(voters) \div 2

\* lines 238-257: is the candidate at index i pushed to eligible_candidates
IsEligible(sorted, i, voters, visible_voters) ==
    /\ sorted[i][2] \in visible_voters
    /\ UpToDateCount(sorted, i, i) > Cardinality(voters) \div 2

\* lines 233-258: eligible_candidates, from index i on
RECURSIVE EligibleFrom(_, _, _, _)
EligibleFrom(sorted, i, voters, visible_voters) ==
    IF i > Len(sorted) THEN <<>>
    ELSE (IF IsEligible(sorted, i, voters, visible_voters)
          THEN <<sorted[i][2]>> ELSE <<>>)
         \o EligibleFrom(sorted, i + 1, voters, visible_voters)

eligible_candidates(voters, acks, visible_voters) ==
    EligibleFrom(sorted_candidates(voters, acks), 1, voters, visible_voters)

SeqRange(q) == {q[i] : i \in 1..Len(q)}

\* mutant: lines 272-279 left out, the election never waits
DeferElection_Never(config, acks, visible_voters) == FALSE

\* lines 272-274: wait for the designated primary to send an ack
DeferElection(config, acks, visible_voters) ==
    /\ config.primary_replica # Nil
    /\ config.primary_replica \in visible_voters
    /\ AcksCount(acks, config.primary_replica) = 0

\* mutant: lines 261-267 left out, the designated primary is not preferred
ElectPrimary_NoPreference(config, acks, voters, visible_voters) ==
    LET eligible == eligible_candidates(voters, acks, visible_voters)
    IN  IF Len(eligible) > 0
        THEN IF DeferElection(config, acks, visible_voters)
             THEN None
             ELSE Some(Primary(eligible[Len(eligible)], None))
        ELSE None

\* mutant: line 283 with front() for back()
ElectPrimary_Front(config, acks, voters, visible_voters) ==
    LET eligible == eligible_candidates(voters, acks, visible_voters)
    IN  IF config.primary_replica \in SeqRange(eligible)
        THEN Some(Primary(config.primary_replica, None))
        ELSE IF Len(eligible) > 0
        THEN IF DeferElection(config, acks, visible_voters)
             THEN None
             ELSE Some(Primary(eligible[1], None))
        ELSE None

\* lines 261-286: new_c.primary when old_c has no primary
ElectPrimary(config, acks, voters, visible_voters) ==
    LET eligible == eligible_candidates(voters, acks, visible_voters)
    IN  IF config.primary_replica \in SeqRange(eligible)
        THEN Some(Primary(config.primary_replica, None))
        ELSE IF Len(eligible) > 0
        THEN IF DeferElection(config, acks, visible_voters)
             THEN None
             ELSE Some(Primary(eligible[Len(eligible)], None))
        ELSE None

(***************************************************************************)
(* Handling of an existing primary, lines 310-386.                         *)
(***************************************************************************)
\* mutant: lines 191 and 320 left out, the primary is never stopped
should_kill_primary_Never(old_c, config, acks, visible_voters) == FALSE

\* mutant: lines 319-326 left out, no auto-failover
should_kill_primary_PrunedOnly(old_c, config, acks, visible_voters) ==
    KillPrunedPrimary(old_c, config, acks)

\* lines 182-198 and 319-326: should_kill_primary
should_kill_primary(old_c, config, acks, visible_voters) ==
    \/ KillPrunedPrimary(old_c, config, acks)
    \/ Deref(old_c.primary).server \notin visible_voters

\* mutant: line 342 left out, the designated primary need not be visible
HandOverReady_IgnoreVisibility(config, acks, visible_voters) ==
    /\ AcksCount(acks, config.primary_replica) = 1
    /\ acks[config.primary_replica].state = "secondary_streaming"

\* lines 339-342: the designated primary is ready to take over
HandOverReady(config, acks, visible_voters) ==
    /\ AcksCount(acks, config.primary_replica) = 1
    /\ acks[config.primary_replica].state = "secondary_streaming"
    /\ config.primary_replica \in visible_voters

\* mutant: lines 364-366 left out, the primary is stopped as soon as the
\* hand-over is under way
HandOverComplete_Unacknowledged(old_c, acks) == TRUE

\* lines 364-366: the old primary acknowledged the hand-over
HandOverComplete(old_c, acks) ==
    /\ AcksCount(acks, Deref(old_c.primary).server) = 1
    /\ acks[Deref(old_c.primary).server].state = "primary_ready"

\* mutant: lines 372-376 left out, a hand-over is never aborted
ExistingPrimary_NoAbort(old_c, config, acks, visible_voters) ==
    LET p == Deref(old_c.primary)
    IN  IF should_kill_primary(old_c, config, acks, visible_voters)
        THEN None
        ELSE IF p.server # config.primary_replica
        THEN IF p.hand_over # Some(config.primary_replica)
             THEN IF HandOverReady(config, acks, visible_voters)
                  THEN Some(Primary(p.server, Some(config.primary_replica)))
                  ELSE IF HasValue(p.hand_over)
                  THEN Some(Primary(p.server, None))
                  ELSE old_c.primary
             ELSE IF HandOverComplete(old_c, acks)
                  THEN None
                  ELSE old_c.primary
        ELSE IF HasValue(p.hand_over)
             THEN Some(Primary(p.server, None))
             ELSE old_c.primary

\* lines 328-385: new_c.primary when old_c has a primary
ExistingPrimary(old_c, config, acks, visible_voters) ==
    LET p == Deref(old_c.primary)
    IN  IF should_kill_primary(old_c, config, acks, visible_voters)
        THEN None
        ELSE IF p.server # config.primary_replica
        THEN IF p.hand_over # Some(config.primary_replica)
             THEN IF HandOverReady(config, acks, visible_voters)
                  THEN Some(Primary(p.server, Some(config.primary_replica)))
                  ELSE IF HasValue(p.hand_over)
                  THEN Some(Primary(p.server, None))
                  ELSE old_c.primary
             ELSE IF HandOverComplete(old_c, acks)
                  THEN None
                  ELSE IF config.primary_replica \notin visible_voters
                  THEN Some(Primary(p.server, None))
                  ELSE old_c.primary
        ELSE IF HasValue(p.hand_over)
             THEN Some(Primary(p.server, None))
             ELSE old_c.primary

\* mutant: the guard of line 209 left out, an election runs on every call
NewPrimary_AlwaysElect(old_c, config, acks, conn) ==
    ElectPrimary(config, acks, NewVoters(old_c, config, acks),
                 VisibleVoters(old_c, config, acks, conn))

\* new_c.primary at return
NewPrimary(old_c, config, acks, conn) ==
    LET visible_voters == VisibleVoters(old_c, config, acks, conn)
    IN  IF ~HasValue(old_c.primary)
        THEN ElectPrimary(config, acks, NewVoters(old_c, config, acks), visible_voters)
        ELSE ExistingPrimary(old_c, config, acks, visible_voters)

\* calculate_contract(old_c, config, acks, connections_map), lines 83-389
calculate_contract(old_c, config, acks, conn) ==
    Contract(NewReplicas(old_c, config, acks),
             NewVoters(old_c, config, acks),
             NewTempVoters(old_c, config, acks),
             NewPrimary(old_c, config, acks, conn))

(***************************************************************************)
(* Regions.  A region_t is a rectangle of the (hash, key) space.  The      *)
(* hash space is cut into CPU shards and the key space into key cells, the *)
(* finest ranges any input distinguishes; a region is the set of CPU       *)
(* shards and the set of key cells it spans, both contiguous.              *)
(***************************************************************************)
\* the CPU shards, 0 <= cpu < CPU_SHARDING_FACTOR of line 517
CpuShards == {1, 2}
\* the key cells of the key space, in key order
KeyCells == {1, 2}

Region(cpus, keys) == [cpus |-> cpus, keys |-> keys]
Cells(r) == r.cpus \X r.keys

region_intersection(a, b) == Region(a.cpus \cap b.cpus, a.keys \cap b.keys)
region_is_empty(r) == r.cpus = {} \/ r.keys = {}
cpu_sharding_subspace(cpu) == Region({cpu}, KeyCells)

\* the contiguous non-empty ranges of a set of consecutive integers
Ranges(S) == {a..b : a \in S, b \in S} \ {{}}

\* the order of region_t used by std::map: (hash begin, key begin)
RegionLess(a, b) ==
    LET ha == CHOOSE x \in a.cpus : \A y \in a.cpus : x <= y
        hb == CHOOSE x \in b.cpus : \A y \in b.cpus : x <= y
        ka == CHOOSE x \in a.keys : \A y \in a.keys : x <= y
        kb == CHOOSE x \in b.keys : \A y \in b.keys : x <= y
    IN  ha < hb \/ (ha = hb /\ ka < kb)

(***************************************************************************)
(* region_map_t<T>: a value for every cell of its domain, kept coalesced.  *)
(* It is a map of key ranges to maps of hash ranges: adjacent key ranges   *)
(* whose hash maps are equal are one key range, and within a key range     *)
(* adjacent hash ranges with equal values are one hash range.  f is the    *)
(* value per cell, domain the region the map covers.                       *)
(***************************************************************************)
\* the key range of the map that contains key cell k
KeyRun(domain, f, k) ==
    {j \in domain.keys :
        \A i \in domain.keys :
            ((j <= i /\ i < k) \/ (k <= i /\ i < j)) =>
                \A h \in domain.cpus : f[<<h, i>>] = f[<<h, i + 1>>]}

\* the hash range, within the key range of k, that contains CPU shard h
HashRun(domain, f, k, h) ==
    {g \in domain.cpus :
        \A i \in domain.cpus :
            ((g <= i /\ i < h) \/ (h <= i /\ i < g)) =>
                f[<<i, k>>] = f[<<i + 1, k>>]}

\* the regions the map is made of
Pieces(domain, f) ==
    {Region(HashRun(domain, f, c[2], c[1]), KeyRun(domain, f, c[2])) :
        c \in Cells(domain)}

\* region_map_t::visit(region, cb): the regions cb is called with
VisitRegions(domain, f, region) ==
    {r \in {region_intersection(piece, region) : piece \in Pieces(domain, f)} :
        ~region_is_empty(r)}

\* the value of a region of the map
ValueAt(f, r) == f[CHOOSE c \in Cells(r) : TRUE]

(***************************************************************************)
(* break_ack_into_fragments(), lines 30-59.  A contract_ack_t has a state, *)
(* an optional version (a version_t, that is a branch and a timestamp, for *)
(* every cell of the contract's region) and an optional branch.            *)
(***************************************************************************)
ContractAck(st, vers, br) == [state |-> st, version |-> vers, branch |-> br]
Version(b, t) == [branch |-> b, timestamp |-> t]

\* the branch history read through combined_branch_history: branch 1
\* starts from this version of branch 0
BranchOrigin == Version(0, 1)

\* version_find_branch_common(): the latest version on the way to branch
\* that vers descends from
version_find_branch_common(vers, branch) ==
    IF vers.branch = branch THEN vers
    ELSE IF vers.branch = BranchOrigin.branch
    THEN Version(vers.branch,
                 IF vers.timestamp < BranchOrigin.timestamp
                 THEN vers.timestamp ELSE BranchOrigin.timestamp)
    ELSE BranchOrigin

\* the fragment of ack at one cell of region
break_ack_into_fragments(region, ack, cur_branches) ==
    [cell \in Cells(region) |->
        IF ~HasValue(ack.version)
        THEN AckFrag(ack.state, None, ack.branch)
        ELSE AckFrag(ack.state,
                     Some(version_find_branch_common(
                            Deref(ack.version)[cell], cur_branches[cell]).timestamp),
                     ack.branch)]

(***************************************************************************)
(* calculate_all_contracts(), lines 401-547.  cs is old_state.contracts    *)
(* (contract id -> region and contract), sh the user shards of             *)
(* old_state.config (key range and shard config, by shard index), cb       *)
(* old_state.current_branches, aa the acks map, cn the connections map.    *)
(***************************************************************************)
\* lines 425-427: the part of contract id that lies in user shard i
SubShardRegion(cs, sh, id, i) ==
    region_intersection(cs[id].region, Region(CpuShards, sh[i].keys))

\* mutant: the check of lines 441-443 left out, an ack sent for any
\* contract is collected when it covers the region
frags_by_server_AnyContract(region, id, aa, cb) ==
    LET keys(s) == {k \in DOMAIN aa :
                        /\ k[1] = s
                        /\ \/ ~HasValue(aa[k].version)
                           \/ Cells(region) \subseteq DOMAIN Deref(aa[k].version)}
        pick(s) == CHOOSE k \in keys(s) : \A j \in keys(s) : k[2] <= j[2]
    IN  [cell \in Cells(region) |->
            [server \in {s \in Servers : keys(s) # {}} |->
                break_ack_into_fragments(region, aa[pick(server)], cb)[cell]]]

\* lines 434-454: frags_by_server, the acks sent for contract id
frags_by_server(region, id, aa, cb) ==
    [cell \in Cells(region) |->
        [server \in {s \in Servers : <<s, id>> \in DOMAIN aa} |->
            break_ack_into_fragments(region, aa[<<server, id>>], cb)[cell]]]

\* lines 456-504: one call of calculate_contract per sub-region of
\* frags_by_server
SubRegionResults(cs, sh, aa, cb, cn) ==
    UNION {LET region == SubShardRegion(cs, sh, p[1], p[2])
               fbs == frags_by_server(region, p[1], aa, cb)
           IN  {[region |-> reg,
                 old_contract |-> cs[p[1]].contract,
                 acks_map |-> ValueAt(fbs, reg),
                 new_contract |-> calculate_contract(cs[p[1]].contract, sh[p[2]].config,
                                                     ValueAt(fbs, reg), cn)] :
                    reg \in VisitRegions(region, fbs, region)} :
           p \in {q \in (DOMAIN cs) \X (DOMAIN sh) :
                    ~region_is_empty(SubShardRegion(cs, sh, q[1], q[2]))}}

\* mutant: lines 489-491 left out, the primary need not be kept
RegistersBranch_StoppedPrimary(res) ==
    /\ HasValue(res.old_contract.primary)
    /\ AcksCount(res.acks_map, Deref(res.old_contract.primary).server) = 1
    /\ res.acks_map[Deref(res.old_contract.primary).server].state = "primary_need_branch"

\* lines 488-494: a primary is asking for a branch
RegistersBranch(res) ==
    /\ HasValue(res.old_contract.primary)
    /\ HasValue(res.new_contract.primary)
    /\ Deref(res.old_contract.primary).server = Deref(res.new_contract.primary).server
    /\ AcksCount(res.acks_map, Deref(res.old_contract.primary).server) = 1
    /\ res.acks_map[Deref(res.old_contract.primary).server].state = "primary_need_branch"

\* lines 495-499: the entries of register_current_branches_out
RegisteredBranches(results) ==
    {<<res.region, Deref(res.acks_map[Deref(res.old_contract.primary).server].branch)>> :
        res \in {r \in results : RegistersBranch(r)}}

\* lines 510-512: from_unordered_fragments, the new contract of every cell
from_unordered_fragments(results) ==
    [cell \in UNION {Cells(res.region) : res \in results} |->
        (CHOOSE res \in results : cell \in Cells(res.region)).new_contract]

\* mutant: lines 517-520 left out, the map is not sliced
SliceRegions_Unsliced(sh, f) ==
    Pieces(Region(CpuShards, KeyCells), f)

\* lines 517-527: the regions of new_contract_map, one CPU shard and one
\* user shard at a time
SliceRegions(sh, f) ==
    UNION {VisitRegions(Region(CpuShards, KeyCells), f,
                        Region(cpu_sharding_subspace(cpu).cpus, sh[shard].keys)) :
           cpu \in CpuShards, shard \in DOMAIN sh}

\* line 516: new_contract_map
new_contract_map(sh, f) == [reg \in SliceRegions(sh, f) |-> ValueAt(f, reg)]

\* mutant: the comparison of line 532 never succeeds
Unchanged_Never(cs, ncm, id) == FALSE

\* lines 531-532: the old contract is found unchanged in new_contract_map
Unchanged(cs, ncm, id) ==
    /\ cs[id].region \in DOMAIN ncm
    /\ ncm[cs[id].region] = cs[id].contract

\* mutant: a contract whose region is not found at line 531 is kept
RemoveContracts_FoundOnly(cs, ncm) ==
    {id \in DOMAIN cs : cs[id].region \in DOMAIN ncm /\ ~Unchanged(cs, ncm, id)}

\* lines 530-540: remove_contracts_out
RemoveContracts(cs, ncm) == {id \in DOMAIN cs : ~Unchanged(cs, ncm, id)}

\* mutant: line 535 left out, the unchanged contracts are added again
RemainingRegions_NoErase(cs, ncm) == DOMAIN ncm

\* line 535: the regions left in new_contract_map after the diff
RemainingRegions(cs, ncm) ==
    DOMAIN ncm \ {cs[id].region : id \in DOMAIN cs \ RemoveContracts(cs, ncm)}

\* generate_uuid(): contract ids no contract and no ack has used so far
FreshBase(cs, aa) ==
    LET used == DOMAIN cs \cup {k[2] : k \in DOMAIN aa}
    IN  CHOOSE m \in used : \A u \in used : u <= m

\* lines 541-546: add_contracts_out, new ids given in the order of the map
AddContracts(cs, aa, ncm) ==
    LET rem == RemainingRegions(cs, ncm)
        id_of(r) == FreshBase(cs, aa) + 1 + Cardinality({q \in rem : RegionLess(q, r)})
    IN  [id \in {id_of(r) : r \in rem} |->
            LET r == CHOOSE q \in rem : id_of(q) = id
            IN  [region |-> r, contract |-> ncm[r]]]

(***************************************************************************)
(* State.  One invocation of calculate_contract: its four inputs, the      *)
(* working copy new_c and the position of the call.  target, judges and    *)
(* verdict are the arguments and the result of one direct call of          *)
(* invisible_to_majority_of_set.  calls counts the invocations made.       *)
(*                                                                         *)
(* For calculate_all_contracts: contracts, shards and current_branches     *)
(* are old_state.contracts, old_state.config and                           *)
(* old_state.current_branches; all_acks is the acks map keyed by (server,  *)
(* contract id); remove_contracts, add_contracts and                       *)
(* register_current_branches are the three outputs.                        *)
(*                                                                         *)
(* For a proxy_replica_t of remote_replicator_server.cc: is_ready is its   *)
(* field, readable tells whether its registration was marked readable,     *)
(* requests holds the calls of do_read, do_write_sync and do_write_async   *)
(* made on it, in_flight the mailbox messages sent and not yet received,   *)
(* readies the ready messages the client has sent.                         *)
(***************************************************************************)
VARIABLES old_c, config, acks, conn, new_c, pc, target, judges, verdict, calls,
          contracts, shards, current_branches, all_acks,
          remove_contracts, add_contracts, register_current_branches,
          is_ready, readable, requests, in_flight, readies

call_vars == <<target, judges, verdict>>
driver_vars == <<contracts, shards, current_branches, all_acks,
                 remove_contracts, add_contracts, register_current_branches>>
proxy_vars == <<is_ready, readable, requests, in_flight, readies>>
vars == <<old_c, config, acks, conn, new_c, pc, calls, call_vars, driver_vars, proxy_vars>>

NonEmptySubsets(S) == SUBSET S \ {{}}
OptionalOf(S) == {None} \cup {Some(x) : x \in S}

\* voters and temp_voters of c together
AllVoters(c) ==
    c.voters \cup (IF HasValue(c.temp_voters) THEN Deref(c.temp_voters) ELSE {})

(***************************************************************************)
(* The contracts calculate_contract is called on.  They satisfy what the   *)
(* function itself keeps true of every contract it returns: voters and     *)
(* temp_voters are non-empty subsets of replicas, temp_voters differs      *)
(* from voters (line 109), a primary is a voter or temp voter (lines 222,  *)
(* 319) and is never its own hand-over target (line 330).                  *)
(***************************************************************************)
WellFormed(c) ==
    /\ c.voters \subseteq c.replicas
    /\ HasValue(c.temp_voters) =>
          /\ Deref(c.temp_voters) \subseteq c.replicas
          /\ Deref(c.temp_voters) # c.voters
    /\ HasValue(c.primary) =>
          /\ Deref(c.primary).server \in AllVoters(c)
          /\ Deref(c.primary).hand_over # Some(Deref(c.primary).server)

Memberships ==
    {m \in [replicas : NonEmptySubsets(Servers), voters : NonEmptySubsets(Servers),
            temp_voters : OptionalOf(NonEmptySubsets(Servers))] :
        WellFormed(Contract(m.replicas, m.voters, m.temp_voters, None))}

\* Contracts without a primary: every membership.
ContractsNoPrimary ==
    {Contract(m.replicas, m.voters, m.temp_voters, None) : m \in Memberships}

\* Contracts with a primary.  No step of calculate_contract on a contract
\* that has a primary compares server ids by order, so the servers are
\* named such that the primary is server 1 and a hand-over target, if
\* any, is server 2; the memberships are all drawn.
ContractsWithPrimary ==
    {c \in {Contract(m.replicas, m.voters, m.temp_voters, Some(Primary(1, h))) :
                m \in Memberships, h \in OptionalOf({2})} : WellFormed(c)}

\* table_config_t::shard_t: voting replicas are replicas, the designated
\* primary is a voting replica or nil
Configs ==
    {ShardConfig(a, v, p) :
        a \in NonEmptySubsets(Servers), v \in NonEmptySubsets(Servers),
        p \in {Nil} \cup Servers}

ValidConfig(c) ==
    /\ c.voting_replicas \subseteq c.all_replicas
    /\ c.primary_replica \in {Nil} \cup c.voting_replicas

\* branch_id_t values requested by primary_need_branch acks
Branches == {1}

\* acks a server sends in the primary role, and in the secondary role
PrimaryFrags ==
    {AckFrag("primary_need_branch", None, Some(b)) : b \in Branches}
    \cup {AckFrag("primary_ready", None, None)}

SecondaryFrags ==
    {AckFrag("secondary_need_primary", Some(t), None) : t \in Timestamps}
    \cup {AckFrag("secondary_streaming", None, None),
          AckFrag("secondary_backfilling", None, None)}

\* the acks server s can have sent for contract c: the server c names as
\* primary acts in the primary role, every other server in the secondary role
RoleFrags(c, s) ==
    IF HasValue(c.primary) /\ Deref(c.primary).server = s
    THEN PrimaryFrags ELSE SecondaryFrags

\* the ack maps for contract c: any set of servers has acked
AckMaps(c) ==
    UNION {{f \in [D -> PrimaryFrags \cup SecondaryFrags] :
                \A s \in D : f[s] \in RoleFrags(c, s)} : D \in SUBSET Servers}

\* connections maps: every server sees every server; server d is down (we
\* cannot see it and nobody else can); every server sees only itself
FullConn == Servers \X Servers
DownConn(d) == {<<x, y>> \in FullConn : x # d /\ y # d}
PartitionedConn == {<<x, x>> : x \in Servers}
Conns == {FullConn, PartitionedConn} \cup {DownConn(d) : d \in Servers}

NoCall == /\ target = Nil
          /\ judges = {}
          /\ verdict = FALSE

\* calculate_all_contracts is not called: an empty table state, no outputs
NoDriver == /\ contracts = <<>>
            /\ shards = <<>>
            /\ current_branches = <<>>
            /\ all_acks = <<>>
            /\ remove_contracts = {}
            /\ add_contracts = <<>>
            /\ register_current_branches = {}

\* no proxy_replica_t is constructed
NoProxy == /\ is_ready = FALSE
           /\ readable = FALSE
           /\ requests = <<>>
           /\ in_flight = {}
           /\ readies = 0

Init ==
    /\ old_c \in ContractsNoPrimary \cup ContractsWithPrimary
    /\ config \in {c \in Configs : ValidConfig(c)}
    /\ acks \in AckMaps(old_c)
    /\ conn \in Conns
    /\ new_c = old_c
    /\ pc = "start"
    /\ calls = 0
    /\ NoCall
    /\ NoDriver
    /\ NoProxy

\* the call of calculate_contract, line 100 to the return of line 388
Calculate ==
    /\ pc = "start"
    /\ new_c' = calculate_contract(old_c, config, acks, conn)
    /\ pc' = "done"
    /\ calls' = calls + 1
    /\ UNCHANGED <<old_c, config, acks, conn, call_vars, driver_vars, proxy_vars>>

Next == Calculate

Spec == Init /\ [][Next]_vars

(***************************************************************************)
(* Direct calls of invisible_to_majority_of_set on every connections map,  *)
(* judge set and target.                                                   *)
(***************************************************************************)
InitVis ==
    /\ target \in Servers
    /\ judges \in SUBSET Servers
    /\ conn \in SUBSET (Servers \X Servers)
    /\ verdict = FALSE
    /\ pc = "call"
    /\ old_c = Contract({1}, {1}, None, None)
    /\ new_c = old_c
    /\ config = ShardConfig({1}, {1}, Nil)
    /\ acks = <<>>
    /\ calls = 0
    /\ NoDriver
    /\ NoProxy

\* the call of invisible_to_majority_of_set, lines 69-76
Judge ==
    /\ pc = "call"
    /\ verdict' = invisible_to_majority_of_set(target, judges, conn)
    /\ pc' = "returned"
    /\ UNCHANGED <<old_c, config, acks, conn, new_c, target, judges, calls, driver_vars, proxy_vars>>

NextVis == Judge

SpecVis == InitVis /\ [][NextVis]_vars

(***************************************************************************)
(* Invocations of calculate_contract on the contracts that have a          *)
(* primary, under the connections maps of Conns and those in which one     *)
(* link between two servers is cut in both directions while the            *)
(* coordinator sees every server.                                          *)
(***************************************************************************)
CutConn(x, y) == FullConn \ {<<x, y>>, <<y, x>>}
PrimaryConns ==
    Conns \cup {CutConn(l[1], l[2]) : l \in {m \in Servers \X Servers : m[1] < m[2]}}

InitPrimary ==
    /\ old_c \in ContractsWithPrimary
    /\ config \in {c \in Configs : ValidConfig(c)}
    /\ acks \in AckMaps(old_c)
    /\ conn \in PrimaryConns
    /\ new_c = old_c
    /\ pc = "start"
    /\ calls = 0
    /\ NoCall
    /\ NoDriver
    /\ NoProxy

SpecPrimary == InitPrimary /\ [][Next]_vars

(***************************************************************************)
(* Invocations of calculate_contract on the contracts that have no         *)
(* primary, the ones for which an election is run (line 209).              *)
(***************************************************************************)
InitElect ==
    /\ old_c \in ContractsNoPrimary
    /\ config \in {c \in Configs : ValidConfig(c)}
    /\ acks \in AckMaps(old_c)
    /\ conn \in Conns
    /\ new_c = old_c
    /\ pc = "start"
    /\ calls = 0
    /\ NoCall
    /\ NoDriver
    /\ NoProxy

SpecElect == InitElect /\ [][Next]_vars

(***************************************************************************)
(* A sequence of invocations for one region.  The coordinator calls        *)
(* calculate_contract, the contract it returns becomes the contract of     *)
(* the region, the servers send acks for that contract (lines 88-90: acks  *)
(* for earlier contracts are not passed), the connections change, and the  *)
(* coordinator calls again.  The table config is that of the first call.   *)
(***************************************************************************)
\* invocations made in one sequence
MaxCalls == 3

\* the first contract of a sequence is at rest: it has a primary, no
\* hand-over and no voter change under way
SeqContracts ==
    {c \in ContractsWithPrimary :
        ~HasValue(Deref(c.primary).hand_over) /\ ~HasValue(c.temp_voters)}

\* in a sequence servers 1 and 2 send acks, server 3 is silent
SeqAckMaps(c) == {a \in AckMaps(c) : DOMAIN a \subseteq {1, 2}}

\* in a sequence every server is connected, or server 1 or 2 is down
SeqConns == {FullConn, DownConn(1), DownConn(2)}

InitSeq ==
    /\ old_c \in SeqContracts
    /\ config \in {c \in Configs : ValidConfig(c)}
    /\ acks \in SeqAckMaps(old_c)
    /\ conn \in SeqConns
    /\ new_c = old_c
    /\ pc = "start"
    /\ calls = 0
    /\ NoCall
    /\ NoDriver
    /\ NoProxy

\* the returned contract takes effect and is acknowledged
Acknowledge ==
    /\ pc = "done"
    /\ calls < MaxCalls
    /\ old_c' = new_c
    /\ acks' \in SeqAckMaps(new_c)
    /\ conn' \in SeqConns
    /\ pc' = "start"
    /\ UNCHANGED <<config, new_c, calls, call_vars, driver_vars, proxy_vars>>

NextSeq == Calculate \/ Acknowledge

SpecSeq == InitSeq /\ [][NextSeq]_vars

(***************************************************************************)
(* A sequence of invocations for one region during which the user changes  *)
(* the table config: between two calls the returned contract takes         *)
(* effect, the servers send acks for it, the connections change and the    *)
(* config is replaced by any config of ReconfConfigs.                      *)
(***************************************************************************)
\* the table configs of such a sequence: every server is a replica, the
\* voting replicas are servers 1 and 2, servers 1 and 3 or all three, and
\* the designated primary is a voting replica among servers 1 and 2
ReconfConfigs ==
    {c \in Configs :
        /\ ValidConfig(c)
        /\ c.all_replicas = Servers
        /\ c.voting_replicas \in {{1, 2}, {1, 3}, Servers}
        /\ c.primary_replica \in {1, 2}}

\* the first contract is at rest, its voters are the voting replicas of
\* some config and every server is a replica
ReconfContracts ==
    {c \in SeqContracts :
        /\ c.replicas = Servers
        /\ \E g \in ReconfConfigs : c.voters = g.voting_replicas}

\* the acks of such a sequence: no secondary is backfilling
ReconfAckMaps(c) ==
    {a \in AckMaps(c) : \A s \in DOMAIN a : a[s].state # "secondary_backfilling"}

\* every server is connected, or server 2 is down
ReconfConns == {FullConn, DownConn(2)}

InitReconf ==
    /\ old_c \in ReconfContracts
    /\ config \in ReconfConfigs
    /\ acks \in ReconfAckMaps(old_c)
    /\ conn \in ReconfConns
    /\ new_c = old_c
    /\ pc = "start"
    /\ calls = 0
    /\ NoCall
    /\ NoDriver
    /\ NoProxy

\* the returned contract takes effect and is acknowledged, and the user
\* changes the table config
Reconfigure ==
    /\ pc = "done"
    /\ calls < MaxCalls
    /\ old_c' = new_c
    /\ acks' \in ReconfAckMaps(new_c)
    /\ conn' \in ReconfConns
    /\ config' \in ReconfConfigs
    /\ pc' = "start"
    /\ UNCHANGED <<new_c, calls, call_vars, driver_vars, proxy_vars>>

NextReconf == Calculate \/ Reconfigure

SpecReconf == InitReconf /\ [][NextReconf]_vars

(***************************************************************************)
(* Invocations of calculate_all_contracts on a table: the contracts of     *)
(* CPU shard 1 cut the key space in any way, every other CPU shard has     *)
(* one contract; the user shards cut the key space in any way.  After a    *)
(* run the diff is applied to the table state and calculate_all_contracts  *)
(* runs again on the same config, acks and connections.                    *)
(***************************************************************************)
\* runs of calculate_all_contracts on one table
MaxRuns == 2

\* the ways to cut the key space into contiguous ranges
KeyPartitions ==
    {P \in SUBSET Ranges(KeyCells) :
        \A k \in KeyCells : Cardinality({r \in P : k \in r}) = 1}

\* the regions of the old contracts
Layouts ==
    {{Region({1}, r) : r \in P} \cup {Region({h}, KeyCells) : h \in CpuShards \ {1}} :
        P \in KeyPartitions}

\* the ranges of P in the order of their keys
RECURSIVE SortRanges(_)
SortRanges(P) ==
    IF P = {} THEN <<>>
    ELSE LET first == CHOOSE r \in P : \A q \in P : \E k \in r : \A j \in q : k <= j
         IN  <<first>> \o SortRanges(P \ {first})

\* the regions of L in the order of region_t
RECURSIVE SortRegions(_)
SortRegions(L) ==
    IF L = {} THEN <<>>
    ELSE LET first == CHOOSE r \in L : \A q \in L \ {r} : RegionLess(r, q)
         IN  <<first>> \o SortRegions(L \ {first})

\* the contracts of the table: no primary, primary 1, primary 1 handing
\* over to server 2
DriverContracts ==
    {Contract(Servers, Servers, None, p) :
        p \in {None, Some(Primary(1, None)), Some(Primary(1, Some(2)))}}

\* the shard configs of the table: server 1 or server 2 is to be primary
DriverConfigs == {ShardConfig(Servers, Servers, p) : p \in {1, 2}}

\* the version maps an ack can carry for region: a timestamp for every
\* cell, on branch b
VersionMaps(region, b) == [Cells(region) -> {Version(b, t) : t \in Timestamps}]
UniformVersion(region, b) == [cell \in Cells(region) |-> Version(b, 1)]

\* the acks server s can have sent for contract c of region: the primary
\* asks for a branch or is ready; server 2 streams or reports any version
\* map of branch 0; server 1, when not primary, reports version 1 of
\* branch 1
RoleAcks(c, region, s) ==
    IF HasValue(c.primary) /\ Deref(c.primary).server = s
    THEN {ContractAck("primary_need_branch", None, Some(b)) : b \in Branches}
         \cup {ContractAck("primary_ready", None, None)}
    ELSE IF s = 2
    THEN {ContractAck("secondary_need_primary", Some(vm), None) :
                vm \in VersionMaps(region, 0)}
         \cup {ContractAck("secondary_streaming", None, None)}
    ELSE {ContractAck("secondary_need_primary", Some(UniformVersion(region, 1)), None)}

\* the acks sent for contract c of region, by any set of the servers 1
\* and 2; server 3 is silent
AckProfiles(c, region) ==
    UNION {{f \in [D -> UNION {RoleAcks(c, region, s) : s \in D}] :
                \A s \in D : f[s] \in RoleAcks(c, region, s)} : D \in SUBSET {1, 2}}

\* a contract of the table and the acks sent for it; the contracts of the
\* CPU shards other than 1 have no acks yet
Situations(region) ==
    UNION {{[contract |-> c, acks |-> a] :
                a \in IF region.cpus = {1} THEN AckProfiles(c, region) ELSE {<<>>}} :
           c \in DriverContracts}

\* one situation for each region of the sequence regs
RECURSIVE SituationSeqs(_)
SituationSeqs(regs) ==
    IF regs = <<>> THEN {<<>>}
    ELSE {<<sit>> \o rest :
            sit \in Situations(Head(regs)), rest \in SituationSeqs(Tail(regs))}

\* the user shards: a cut of the key space and a config for each range
ShardSeqs ==
    UNION {{[i \in DOMAIN SortRanges(P) |-> [keys |-> SortRanges(P)[i], config |-> g[i]]] :
                g \in [DOMAIN SortRanges(P) -> DriverConfigs]} : P \in KeyPartitions}

\* old_state.current_branches: branch 0 everywhere, or branch 1 on key cell 1
BranchMaps ==
    {[cell \in CpuShards \X KeyCells |-> 0],
     [cell \in CpuShards \X KeyCells |-> IF cell[2] = 1 THEN 1 ELSE 0]}

DriverConns == {FullConn, DownConn(1)}

NoOutputs == /\ remove_contracts = {}
             /\ add_contracts = <<>>
             /\ register_current_branches = {}

InitAll ==
    /\ \E L \in Layouts : \E sits \in SituationSeqs(SortRegions(L)) :
          /\ contracts = [id \in DOMAIN sits |->
                            [region |-> SortRegions(L)[id], contract |-> sits[id].contract]]
          /\ all_acks = [k \in {q \in Servers \X DOMAIN sits : q[1] \in DOMAIN sits[q[2]].acks} |->
                            sits[k[2]].acks[k[1]]]
    /\ shards \in ShardSeqs
    /\ current_branches \in BranchMaps
    /\ conn \in DriverConns
    /\ NoOutputs
    /\ pc = "ready"
    /\ calls = 0
    /\ old_c = Contract({1}, {1}, None, None)
    /\ new_c = old_c
    /\ config = ShardConfig({1}, {1}, Nil)
    /\ acks = <<>>
    /\ NoCall
    /\ NoProxy

\* the call of calculate_all_contracts, line 411 to line 547
CalculateAll ==
    /\ pc = "ready"
    /\ LET results == SubRegionResults(contracts, shards, all_acks, current_branches, conn)
           ncm == new_contract_map(shards, from_unordered_fragments(results))
       IN  /\ register_current_branches' = RegisteredBranches(results)
           /\ remove_contracts' = RemoveContracts(contracts, ncm)
           /\ add_contracts' = AddContracts(contracts, all_acks, ncm)
    /\ pc' = "emitted"
    /\ calls' = calls + 1
    /\ UNCHANGED <<old_c, config, acks, conn, new_c, call_vars,
                   contracts, shards, current_branches, all_acks, proxy_vars>>

\* the diff is applied to the table state: contracts are removed and
\* added, the registered branches become the current branches
ApplyDiff ==
    /\ pc = "emitted"
    /\ calls < MaxRuns
    /\ contracts' = [id \in (DOMAIN contracts \ remove_contracts) \cup DOMAIN add_contracts |->
                        IF id \in DOMAIN add_contracts THEN add_contracts[id]
                        ELSE contracts[id]]
    /\ current_branches' =
          [cell \in DOMAIN current_branches |->
              IF \E rb \in register_current_branches : cell \in Cells(rb[1])
              THEN (CHOOSE rb \in register_current_branches : cell \in Cells(rb[1]))[2]
              ELSE current_branches[cell]]
    /\ remove_contracts' = {}
    /\ add_contracts' = <<>>
    /\ register_current_branches' = {}
    /\ pc' = "ready"
    /\ UNCHANGED <<old_c, config, acks, conn, new_c, calls, call_vars, shards, all_acks,
                   proxy_vars>>

NextAll == CalculateAll \/ ApplyDiff

SpecAll == InitAll /\ [][NextAll]_vars

(***************************************************************************)
(* remote_replicator_server_t::proxy_replica_t,                            *)
(* clustering/immediate_consistency/remote_replicator_server.cc.  One      *)
(* proxy replica, the primary that dispatches reads and writes to it, the  *)
(* remote client it forwards them to and the mailbox messages between      *)
(* them.  A failed guarantee() ends the process: pc becomes "aborted".     *)
(***************************************************************************)
\* calls of do_read, do_write_sync and do_write_async made on the proxy
MaxOps == 3
\* ready messages the client sends
MaxReady == 2

\* mailbox addresses: the mailboxes of client_bcard, the ready_mailbox
\* and the reply_mailbox of the proxy, and the response_mailbox that
\* the call numbered op creates
IntroMailbox == <<"intro_mailbox", 0>>
ReadMailbox == <<"read_mailbox", 0>>
WriteSyncMailbox == <<"write_sync_mailbox", 0>>
WriteAsyncMailbox == <<"write_async_mailbox", 0>>
ReadyMailbox == <<"ready_mailbox", 0>>
ReplyMailbox == <<"reply_mailbox", 0>>
ResponseMailbox(op) == <<"response_mailbox", op>>
NoAddress == <<"none", 0>>

\* a message sent to mailbox to, for call op, carrying the address reply_to
Message(to, op, reply_to) == [to |-> to, op |-> op, reply_to |-> reply_to]

\* a call on the proxy: its kind, its position and *response_out
Request(kind, state, response) == [kind |-> kind, state |-> state, response_out |-> response]

\* the constructor, lines 12-22
InitProxy ==
    /\ is_ready = FALSE
    /\ readable = FALSE
    /\ requests = <<>>
    /\ in_flight = {Message(IntroMailbox, 0, ReadyMailbox)}
    /\ readies = 0
    /\ pc = "running"
    /\ calls = 0
    /\ old_c = Contract({1}, {1}, None, None)
    /\ new_c = old_c
    /\ config = ShardConfig({1}, {1}, Nil)
    /\ acks = <<>>
    /\ conn = {}
    /\ NoCall
    /\ NoDriver

\* the client, introduced to the proxy, sends a message to ready_mailbox
ClientReady ==
    /\ pc = "running"
    /\ readies < MaxReady
    /\ Message(IntroMailbox, 0, ReadyMailbox) \in in_flight
    /\ readies' = readies + 1
    /\ in_flight' = in_flight \cup {Message(ReadyMailbox, readies + 1, NoAddress)}
    /\ UNCHANGED <<is_ready, readable, requests, pc, calls>>
    /\ UNCHANGED <<old_c, config, acks, conn, new_c, call_vars, driver_vars>>

\* mutant: line 72 left out, a second ready message is accepted
on_ready_Repeatable ==
    /\ pc = "running"
    /\ \E m \in in_flight :
          /\ m.to = ReadyMailbox
          /\ in_flight' = in_flight \ {m}
          /\ is_ready' = TRUE
          /\ readable' = TRUE
          /\ pc' = pc
    /\ UNCHANGED <<requests, readies, calls>>
    /\ UNCHANGED <<old_c, config, acks, conn, new_c, call_vars, driver_vars>>

\* on_ready, lines 71-75, called when ready_mailbox receives a message
on_ready ==
    /\ pc = "running"
    /\ \E m \in in_flight :
          /\ m.to = ReadyMailbox
          /\ in_flight' = in_flight \ {m}
          /\ IF is_ready
             THEN pc' = "aborted" /\ UNCHANGED <<is_ready, readable>>
             ELSE is_ready' = TRUE /\ readable' = TRUE /\ pc' = pc
    /\ UNCHANGED <<requests, readies, calls>>
    /\ UNCHANGED <<old_c, config, acks, conn, new_c, call_vars, driver_vars>>

\* do_read, lines 24-38: the guarantee, the response mailbox of the call
\* and the message to the client's read_mailbox
do_read ==
    /\ pc = "running"
    /\ calls < MaxOps
    /\ calls' = calls + 1
    /\ IF ~is_ready
       THEN /\ pc' = "aborted"
            /\ requests' = Append(requests, Request("read", "aborted", None))
            /\ UNCHANGED in_flight
       ELSE /\ pc' = pc
            /\ requests' = Append(requests, Request("read", "waiting", None))
            /\ in_flight' = in_flight \cup {Message(ReadMailbox, calls + 1, ReplyMailbox)}
    /\ UNCHANGED <<is_ready, readable, readies>>
    /\ UNCHANGED <<old_c, config, acks, conn, new_c, call_vars, driver_vars>>

\* do_write_sync, lines 42-58
do_write_sync ==
    /\ pc = "running"
    /\ calls < MaxOps
    /\ calls' = calls + 1
    /\ IF ~is_ready
       THEN /\ pc' = "aborted"
            /\ requests' = Append(requests, Request("write_sync", "aborted", None))
            /\ UNCHANGED in_flight
       ELSE /\ pc' = pc
            /\ requests' = Append(requests, Request("write_sync", "waiting", None))
            /\ in_flight' = in_flight \cup
                  {Message(WriteSyncMailbox, calls + 1, ResponseMailbox(calls + 1))}
    /\ UNCHANGED <<is_ready, readable, readies>>
    /\ UNCHANGED <<old_c, config, acks, conn, new_c, call_vars, driver_vars>>

\* do_write_async, lines 62-69
do_write_async ==
    /\ pc = "running"
    /\ calls < MaxOps
    /\ calls' = calls + 1
    /\ requests' = Append(requests, Request("write_async", "returned", None))
    /\ in_flight' = in_flight \cup {Message(WriteAsyncMailbox, calls + 1, NoAddress)}
    /\ UNCHANGED <<is_ready, readable, readies, pc>>
    /\ UNCHANGED <<old_c, config, acks, conn, new_c, call_vars, driver_vars>>

\* the client receives a read or a synchronous write and sends its
\* response, here the number of the call, to the address it was given
ClientReply ==
    /\ pc = "running"
    /\ \E m \in in_flight :
          /\ m.to \in {ReadMailbox, WriteSyncMailbox}
          /\ in_flight' = (in_flight \ {m}) \cup {Message(m.reply_to, m.op, NoAddress)}
    /\ UNCHANGED <<is_ready, readable, requests, readies, pc, calls>>
    /\ UNCHANGED <<old_c, config, acks, conn, new_c, call_vars, driver_vars>>

\* a response arrives.  At the response_mailbox of a call that still
\* waits, the callback of lines 33-36 and 53-56 stores it in *response_out
\* and pulses got_response; at reply_mailbox, or when the call has ended
\* and its mailbox is gone, no call sees it
ReceiveResponse ==
    /\ pc = "running"
    /\ \E m \in in_flight :
          /\ m.to[1] \in {"response_mailbox", "reply_mailbox"}
          /\ in_flight' = in_flight \ {m}
          /\ IF /\ m.to[1] = "response_mailbox"
                /\ m.to[2] \in DOMAIN requests
                /\ requests[m.to[2]].state = "waiting"
             THEN requests' = [requests EXCEPT ![m.to[2]] =
                                  Request(@.kind, "pulsed", Some(m.op))]
             ELSE UNCHANGED requests
    /\ UNCHANGED <<is_ready, readable, readies, pc, calls>>
    /\ UNCHANGED <<old_c, config, acks, conn, new_c, call_vars, driver_vars>>

\* wait_interruptible returns, lines 39 and 59: got_response is pulsed
Return(op) ==
    /\ pc = "running"
    /\ op \in DOMAIN requests
    /\ requests[op].state = "pulsed"
    /\ requests' = [requests EXCEPT ![op].state = "returned"]
    /\ UNCHANGED <<is_ready, readable, in_flight, readies, pc, calls>>
    /\ UNCHANGED <<old_c, config, acks, conn, new_c, call_vars, driver_vars>>

\* wait_interruptible throws, lines 39 and 59: the interruptor is pulsed
Interrupt(op) ==
    /\ pc = "running"
    /\ op \in DOMAIN requests
    /\ requests[op].state \in {"waiting", "pulsed"}
    /\ requests' = [requests EXCEPT ![op].state = "interrupted"]
    /\ UNCHANGED <<is_ready, readable, in_flight, readies, pc, calls>>
    /\ UNCHANGED <<old_c, config, acks, conn, new_c, call_vars, driver_vars>>

NextProxy ==
    \/ ClientReady
    \/ on_ready
    \/ do_read
    \/ do_write_sync
    \/ do_write_async
    \/ ClientReply
    \/ ReceiveResponse
    \/ \E op \in 1..MaxOps : Return(op)
    \/ \E op \in 1..MaxOps : Interrupt(op)

SpecProxy == InitProxy /\ [][NextProxy]_vars

\* the mailboxes deliver every message, the client answers every request
\* and a call whose got_response is pulsed resumes
SpecProxyLive ==
    /\ SpecProxy
    /\ WF_vars(ClientReply)
    /\ WF_vars(ReceiveResponse)
    /\ \A op \in 1..MaxOps : WF_vars(Return(op))

(***************************************************************************)
(* Notions the properties are stated in, written from their statements     *)
(* and not from the functions above.                                       *)
(***************************************************************************)
Returned == pc = "done"

OldPrimary == Deref(old_c.primary).server
NewPrimaryServer == Deref(new_c.primary).server

\* server s has sent an ack in state st for old_c
Acked(s, st) == s \in DOMAIN acks /\ acks[s].state = st

\* a primary is elected by this invocation
Elected == Returned /\ ~HasValue(old_c.primary) /\ HasValue(new_c.primary)

\* temp_voters is set, and is cleared, by this invocation
TempVotersSet == Returned /\ ~HasValue(old_c.temp_voters) /\ HasValue(new_c.temp_voters)
TempVotersCleared == Returned /\ HasValue(old_c.temp_voters) /\ ~HasValue(new_c.temp_voters)

\* the visible_voters of this invocation
visible_voters == VisibleVoters(old_c, config, acks, conn)

\* the timestamp of the secondary_need_primary ack of s
AckedVersion(s) == Deref(acks[s].version)

\* the voters acking secondary_need_primary that s is at least as up to date as
NotAheadOf(s) ==
    {v \in new_c.voters :
        Acked(v, "secondary_need_primary") /\ AckedVersion(v) <= AckedVersion(s)}

\* s is a candidate that is at least as up to date as more than half of voters
DataEligible(s) ==
    /\ s \in new_c.voters
    /\ Acked(s, "secondary_need_primary")
    /\ 2 * Cardinality(NotAheadOf(s)) > Cardinality(new_c.voters)

ElectEligible(s) == DataEligible(s) /\ s \in visible_voters

ElectEligibleSet == {s \in Servers : ElectEligible(s)}

\* the designated primary is visible and only its ack is missing
Deferral ==
    /\ config.primary_replica \in visible_voters
    /\ config.primary_replica \notin DOMAIN acks

\* s has the greatest (timestamp, server_id) pair among the elect-eligible
MostUpToDate(s) ==
    /\ ElectEligible(s)
    /\ \A t \in ElectEligibleSet :
          \/ AckedVersion(t) < AckedVersion(s)
          \/ (AckedVersion(t) = AckedVersion(s) /\ t <= s)

\* judge j definitely cannot see the target: we see j, and j does not see it
CannotSee(j) == <<j, j>> \in conn /\ <<j, target>> \notin conn

(***************************************************************************)
(* C1: calculate_contract never replaces one primary by another in a       *)
(* single step: when the old contract has primary P the new contract has   *)
(* no primary or primary P, so a primary other than the old one appears    *)
(* only when the old contract has none; two contracts of a sequence with   *)
(* different primaries are therefore separated by one without a primary.   *)
(***************************************************************************)
C1_NoDirectReplacement ==
    Returned /\ HasValue(old_c.primary) /\ HasValue(new_c.primary)
        => NewPrimaryServer = OldPrimary

\* the primary is kept while the designated primary, another server, is ready
C1_Witness ==
    /\ Returned
    /\ HasValue(old_c.primary) /\ HasValue(new_c.primary)
    /\ config.primary_replica \notin {Nil, OldPrimary}
    /\ Acked(config.primary_replica, "secondary_streaming")
    /\ config.primary_replica \in visible_voters
    /\ NewPrimaryServer = OldPrimary

(***************************************************************************)
(* C2: in every contract returned, voters is a subset of replicas and      *)
(* temp_voters, when present, is a subset of replicas (for old contracts   *)
(* that satisfy this and configs whose voting replicas are replicas).      *)
(***************************************************************************)
C2_VotersAreReplicas ==
    Returned =>
        /\ new_c.voters \subseteq new_c.replicas
        /\ HasValue(new_c.temp_voters) => Deref(new_c.temp_voters) \subseteq new_c.replicas

\* a voter change begins towards a server that was no replica, while a
\* replica that is no longer configured is pruned
C2_Witness ==
    /\ TempVotersSet
    /\ ~(Deref(new_c.temp_voters) \subseteq old_c.replicas)
    /\ ~(old_c.replicas \subseteq new_c.replicas)

(***************************************************************************)
(* C3: in every contract returned, a primary that is set is a member of    *)
(* replicas; a primary pruned from replicas is cleared in the same call.   *)
(***************************************************************************)
C3_PrimaryIsReplica ==
    Returned /\ HasValue(new_c.primary) => NewPrimaryServer \in new_c.replicas

\* the old primary is pruned from replicas and cleared
C3_Witness ==
    /\ Returned
    /\ HasValue(old_c.primary)
    /\ OldPrimary \notin new_c.replicas
    /\ ~HasValue(new_c.primary)

(***************************************************************************)
(* C4: when the old contract has temp_voters, the new contract has         *)
(* voters = old temp_voters and no temp_voters if the old primary exists   *)
(* and acked primary_ready; in every other case voters and temp_voters     *)
(* are both unchanged.                                                     *)
(***************************************************************************)
C4_CommitGating ==
    Returned /\ HasValue(old_c.temp_voters) =>
        IF HasValue(old_c.primary) /\ Acked(OldPrimary, "primary_ready")
        THEN new_c.voters = Deref(old_c.temp_voters) /\ ~HasValue(new_c.temp_voters)
        ELSE new_c.voters = old_c.voters /\ new_c.temp_voters = old_c.temp_voters

\* a voter change is committed
C4_Witness ==
    /\ TempVotersCleared
    /\ Acked(OldPrimary, "primary_ready")
    /\ new_c.voters = Deref(old_c.temp_voters)
    /\ new_c.voters # old_c.voters

(***************************************************************************)
(* C5: temp_voters is set by an invocation only if more than half of       *)
(* config.voting_replicas are servers acking secondary_streaming or the    *)
(* current primary, and it is then set to config.voting_replicas, which    *)
(* differs from voters.                                                    *)
(***************************************************************************)
C5_BeginNeedsMajority ==
    TempVotersSet =>
        /\ 2 * Cardinality({s \in config.voting_replicas :
                \/ Acked(s, "secondary_streaming")
                \/ (HasValue(old_c.primary) /\ s = OldPrimary)})
              > Cardinality(config.voting_replicas)
        /\ Deref(new_c.temp_voters) = config.voting_replicas
        /\ Deref(new_c.temp_voters) # new_c.voters

\* temp_voters is set with exactly two of three target voters streaming
C5_Witness ==
    /\ TempVotersSet
    /\ Cardinality(config.voting_replicas) = 3
    /\ Cardinality({s \in config.voting_replicas : Acked(s, "secondary_streaming")}) = 2
    /\ ~HasValue(old_c.primary)

(***************************************************************************)
(* C6: an elected primary carries every acked write: when an invocation    *)
(* elects S, S is a voter of the new contract, acked                       *)
(* secondary_need_primary, is in visible_voters, and more than half of     *)
(* the voters are voters acking secondary_need_primary with a timestamp    *)
(* not greater than that of S.                                             *)
(***************************************************************************)
C6_ElectedIsEligible ==
    Elected =>
        /\ NewPrimaryServer \in new_c.voters
        /\ Acked(NewPrimaryServer, "secondary_need_primary")
        /\ NewPrimaryServer \in visible_voters
        /\ 2 * Cardinality(NotAheadOf(NewPrimaryServer)) > Cardinality(new_c.voters)

\* a server is elected on two acks of three voters, the third voter silent
C6_Witness ==
    /\ Elected
    /\ Cardinality(new_c.voters) = 3
    /\ Cardinality(NotAheadOf(NewPrimaryServer)) = 2
    /\ Cardinality(DOMAIN acks) = 2

(***************************************************************************)
(* C7: invisible_to_majority_of_set returns true if and only if strictly   *)
(* more than half of the judges definitely cannot see the target, for      *)
(* every judge set, those of even size and the empty one included.         *)
(***************************************************************************)
C7_StrictMajorityCannotSee ==
    pc = "returned" =>
        (verdict <=> 2 * Cardinality({j \in judges : CannotSee(j)}) > Cardinality(judges))

\* amended: true if and only if no strict majority of the judges is counted
\* as seeing the target, that is, at least half of the judges definitely
\* cannot see it (so it is true on a tie and for the empty judge set)
C7_NoMajoritySees ==
    pc = "returned" =>
        (verdict <=> 2 * Cardinality({j \in judges : CannotSee(j)}) >= Cardinality(judges))

\* two judges, exactly one of which definitely cannot see the target
C7_Witness ==
    /\ pc = "returned"
    /\ Cardinality(judges) = 2
    /\ Cardinality({j \in judges : CannotSee(j)}) = 1
    /\ verdict

(***************************************************************************)
(* C8: when the old contract has no primary and config.primary_replica is  *)
(* elect-eligible, the new primary is config.primary_replica, even when    *)
(* another elect-eligible candidate has a greater timestamp.               *)
(***************************************************************************)
C8_DesignatedPreferred ==
    Returned /\ ~HasValue(old_c.primary) /\ ElectEligible(config.primary_replica)
        => new_c.primary = Some(Primary(config.primary_replica, None))

\* the designated primary is elected over a more up-to-date eligible server
C8_Witness ==
    /\ Elected
    /\ NewPrimaryServer = config.primary_replica
    /\ \E s \in ElectEligibleSet : AckedVersion(s) > AckedVersion(config.primary_replica)

(***************************************************************************)
(* C9: when the old contract has no primary and config.primary_replica is  *)
(* in visible_voters but has sent no ack, the new contract has no primary, *)
(* however many other voters are elect-eligible.                           *)
(***************************************************************************)
C9_DeferredElection ==
    Returned /\ ~HasValue(old_c.primary) /\ Deferral => ~HasValue(new_c.primary)

\* the election waits although two other voters are elect-eligible
C9_Witness ==
    /\ Returned /\ ~HasValue(old_c.primary) /\ Deferral
    /\ Cardinality(ElectEligibleSet) = 2
    /\ ~HasValue(new_c.primary)

(***************************************************************************)
(* C10: when the old contract has no primary, config.primary_replica is    *)
(* not elect-eligible and the election is not deferred, the new primary    *)
(* is the elect-eligible candidate with the greatest (timestamp,           *)
(* server_id) pair; if no candidate is elect-eligible there is no primary. *)
(***************************************************************************)
C10_AlternativeElection ==
    Returned /\ ~HasValue(old_c.primary)
             /\ ~ElectEligible(config.primary_replica) /\ ~Deferral
        => IF ElectEligibleSet = {}
           THEN ~HasValue(new_c.primary)
           ELSE /\ HasValue(new_c.primary)
                /\ MostUpToDate(NewPrimaryServer)
                /\ Deref(new_c.primary).hand_over = None

\* a tie on the timestamp is resolved to the greater server id, the
\* designated primary being invisible
C10_Witness ==
    /\ Elected
    /\ config.primary_replica \notin visible_voters \cup {Nil}
    /\ \E s \in ElectEligibleSet :
          /\ s < NewPrimaryServer
          /\ AckedVersion(s) = AckedVersion(NewPrimaryServer)

\* the old primary is not stopped by this invocation: it is in
\* visible_voters and is configured as a replica or is a voter or temp voter
\* of the new contract
PrimaryNotKilled ==
    /\ OldPrimary \in visible_voters
    /\ OldPrimary \in config.all_replicas \cup AllVoters(new_c)

OldHandOver == Deref(old_c.primary).hand_over
NewHandOver == Deref(new_c.primary).hand_over

(***************************************************************************)
(* C11: hand-over begin.  When the old contract has a primary P that is    *)
(* not killed by this invocation, P is not config.primary_replica and the  *)
(* old hand_over is not some(config.primary_replica), the new contract     *)
(* keeps P as primary, with hand_over = some(config.primary_replica) if    *)
(* config.primary_replica acked secondary_streaming and is in              *)
(* visible_voters, and with hand_over = none otherwise.                    *)
(***************************************************************************)
C11_HandOverBegin ==
    Returned /\ HasValue(old_c.primary) /\ PrimaryNotKilled
             /\ OldPrimary # config.primary_replica
             /\ OldHandOver # Some(config.primary_replica)
        => /\ HasValue(new_c.primary)
           /\ NewPrimaryServer = OldPrimary
           /\ IF /\ Acked(config.primary_replica, "secondary_streaming")
                 /\ config.primary_replica \in visible_voters
              THEN NewHandOver = Some(config.primary_replica)
              ELSE NewHandOver = None

\* a hand-over to another server is redirected to the designated primary,
\* which is streaming and visible
C11_Witness ==
    /\ Returned /\ HasValue(old_c.primary) /\ PrimaryNotKilled
    /\ HasValue(OldHandOver)
    /\ OldHandOver # Some(config.primary_replica)
    /\ Acked(config.primary_replica, "secondary_streaming")
    /\ HasValue(new_c.primary)
    /\ NewHandOver = Some(config.primary_replica)

\* the servers of config.voting_replicas acking secondary_streaming or
\* being the existing primary
StreamingOrPrimary ==
    {s \in config.voting_replicas :
        \/ Acked(s, "secondary_streaming")
        \/ (HasValue(old_c.primary) /\ s = OldPrimary)}

\* a voter change can begin: no temp_voters, and voters differs from the
\* configured voting replicas
VoterChangeWanted ==
    ~HasValue(old_c.temp_voters) /\ old_c.voters # config.voting_replicas

(***************************************************************************)
(* C17: begin voter change.  Whenever the old contract has temp_voters     *)
(* absent and voters # config.voting_replicas, and the number of servers   *)
(* of config.voting_replicas that ack secondary_streaming or are the       *)
(* existing primary is greater than half of config.voting_replicas, the    *)
(* new contract has temp_voters = config.voting_replicas; the primary      *)
(* counts whether or not it has sent an ack.                               *)
(***************************************************************************)
C17_BeginCountsPrimary ==
    Returned /\ VoterChangeWanted
             /\ 2 * Cardinality(StreamingOrPrimary) > Cardinality(config.voting_replicas)
        => new_c.temp_voters = Some(config.voting_replicas)

\* amended: the servers counted are those that have sent an ack for the
\* contract and are streaming or the existing primary
C17_BeginCountsAckedPrimary ==
    Returned /\ VoterChangeWanted
             /\ 2 * Cardinality(StreamingOrPrimary \cap DOMAIN acks)
                    > Cardinality(config.voting_replicas)
        => new_c.temp_voters = Some(config.voting_replicas)

\* a voter change begins on the ack of the primary and one streaming
\* server out of three configured voters
C17_Witness ==
    /\ TempVotersSet
    /\ HasValue(old_c.primary)
    /\ OldPrimary \in StreamingOrPrimary \cap DOMAIN acks
    /\ Cardinality(config.voting_replicas) = 3
    /\ Cardinality(StreamingOrPrimary \cap DOMAIN acks) = 2

(***************************************************************************)
(* C18: primary teardown.  If the old contract has primary P and P is not  *)
(* in visible_voters, or P is absent from config.all_replicas and from     *)
(* voters and temp_voters of the new contract, the new contract has no     *)
(* primary, whatever P acked and whatever hand-over is in progress.        *)
(***************************************************************************)
C18_PrimaryTeardown ==
    Returned /\ HasValue(old_c.primary)
             /\ \/ OldPrimary \notin visible_voters
                \/ OldPrimary \notin config.all_replicas \cup AllVoters(new_c)
        => ~HasValue(new_c.primary)

\* a primary asking for a branch in the middle of a hand-over, still a
\* voter and a configured replica, is stopped because it is not visible
C18_Witness ==
    /\ Returned /\ HasValue(old_c.primary)
    /\ OldPrimary \notin visible_voters
    /\ OldPrimary \in config.all_replicas \cap new_c.voters
    /\ HasValue(OldHandOver)
    /\ OldHandOver # Some(config.primary_replica)
    /\ Acked(OldPrimary, "primary_need_branch")
    /\ ~HasValue(new_c.primary)

\* a hand-over to the designated primary is in progress and the primary,
\* which is visible, has not acknowledged it
HandOverInProgress ==
    /\ HasValue(old_c.primary)
    /\ OldPrimary \in visible_voters
    /\ OldPrimary # config.primary_replica
    /\ OldHandOver = Some(config.primary_replica)
    /\ ~Acked(OldPrimary, "primary_ready")

(***************************************************************************)
(* C19: hand-over abort.  When a hand-over is in progress, P has not       *)
(* acked primary_ready and config.primary_replica is not in                *)
(* visible_voters, the new contract keeps P as primary with hand_over =    *)
(* none; if config.primary_replica is in visible_voters the primary        *)
(* record is unchanged.                                                    *)
(***************************************************************************)
C19_HandOverAbort ==
    Returned /\ HandOverInProgress =>
        IF config.primary_replica \notin visible_voters
        THEN new_c.primary = Some(Primary(OldPrimary, None))
        ELSE new_c.primary = old_c.primary

\* the hand-over is aborted while its target, a voter, is not visible
C19_Witness ==
    /\ Returned /\ HandOverInProgress
    /\ config.primary_replica \in new_c.voters
    /\ config.primary_replica \notin visible_voters
    /\ new_c.primary = Some(Primary(OldPrimary, None))

(***************************************************************************)
(* C12: hand-over completion takes two steps.  A primary P that is not     *)
(* killed is cleared only by an invocation whose old contract already has  *)
(* hand_over = some(config.primary_replica) and in which P acked           *)
(* primary_ready, so never by the invocation that sets hand_over and, in   *)
(* a sequence that starts without a hand-over, not by the first            *)
(* invocation; and once hand_over is set and P acked primary_ready the     *)
(* new contract has no primary.                                            *)
(***************************************************************************)
C12_TwoStepHandOver ==
    Returned /\ HasValue(old_c.primary) =>
        /\ PrimaryNotKilled /\ ~HasValue(new_c.primary) =>
              /\ OldHandOver = Some(config.primary_replica)
              /\ Acked(OldPrimary, "primary_ready")
              /\ calls >= 2
        /\ PrimaryNotKilled /\ OldHandOver # Some(config.primary_replica) =>
              HasValue(new_c.primary)
        /\ OldHandOver = Some(config.primary_replica) /\ Acked(OldPrimary, "primary_ready") =>
              ~HasValue(new_c.primary)

\* the second invocation of a sequence completes the hand-over that the
\* first one began
C12_Witness ==
    /\ Returned /\ calls = 2
    /\ HasValue(old_c.primary) /\ PrimaryNotKilled
    /\ OldHandOver = Some(config.primary_replica)
    /\ Acked(OldPrimary, "primary_ready")
    /\ ~HasValue(new_c.primary)

(***************************************************************************)
(* Notions for calculate_all_contracts, written from the statements.       *)
(***************************************************************************)
Emitted == pc = "emitted"
AllCells == CpuShards \X KeyCells

\* the old contracts that keep their id, and the table after the diff
KeptIds == DOMAIN contracts \ remove_contracts
KeptAndAdded ==
    [id \in KeptIds \cup DOMAIN add_contracts |->
        IF id \in DOMAIN add_contracts THEN add_contracts[id] ELSE contracts[id]]

\* the user shard of a cell
ShardOf(cell) == CHOOSE i \in DOMAIN shards : cell[2] \in shards[i].keys

\* the ack fragments for contract id at a cell
FragsAt(id, cell) ==
    [s \in {t \in Servers : <<t, id>> \in DOMAIN all_acks} |->
        break_ack_into_fragments(contracts[id].region, all_acks[<<s, id>>],
                                 current_branches)[cell]]

\* what calculate_contract returns for contract id at a cell
CellResult(id, cell) ==
    calculate_contract(contracts[id].contract, shards[ShardOf(cell)].config,
                       FragsAt(id, cell), conn)

\* calculate_contract returns a value-equal contract over all the region
ValueEqualOverRegion(id) ==
    \A cell \in Cells(contracts[id].region) : CellResult(id, cell) = contracts[id].contract

\* an added contract lies over part of the region of old contract id
AddedOver(id) ==
    \E a \in DOMAIN add_contracts :
        Cells(add_contracts[a].region) \cap Cells(contracts[id].region) # {}

(***************************************************************************)
(* C13: coverage.  The contracts after the diff (the old ones not removed  *)
(* and the added ones) cover the same region as the old contracts, the     *)
(* whole space, and every cell lies in the region of exactly one of them.  *)
(***************************************************************************)
C13_Coverage ==
    Emitted =>
        \A cell \in AllCells :
            Cardinality({id \in DOMAIN KeptAndAdded :
                            cell \in Cells(KeptAndAdded[id].region)}) = 1

\* a diff that keeps one contract, removes another and adds contracts of
\* other regions than the removed ones
C13_Witness ==
    /\ Emitted
    /\ KeptIds # {}
    /\ remove_contracts # {}
    /\ \E a \in DOMAIN add_contracts :
          \A id \in DOMAIN contracts : contracts[id].region # add_contracts[a].region

(***************************************************************************)
(* C14: diff stability.  When calculate_all_contracts has run, its diff    *)
(* has been applied and it runs again on the same config, acks and         *)
(* connections, the second run emits no contract to add and none to        *)
(* remove.                                                                 *)
(***************************************************************************)
C14_DiffStability ==
    Emitted /\ calls >= 2 => add_contracts = <<>> /\ remove_contracts = {}

\* the second run, after a first run that replaced contracts: the table
\* has a contract id that no old contract had
C14_Witness ==
    /\ Emitted /\ calls = 2
    /\ \E id \in DOMAIN contracts : id > Cardinality(AllCells)
    /\ \E id \in DOMAIN contracts : id <= Cardinality(AllCells)

(***************************************************************************)
(* C15: contract ids are stable.  For every old contract for which         *)
(* calculate_contract returns a value-equal contract over all of its       *)
(* region, its id is not in remove_contracts and no contract is added      *)
(* over its region, whatever happens to the neighbouring contracts.        *)
(***************************************************************************)
C15_IdsStable ==
    Emitted =>
        \A id \in DOMAIN contracts :
            ValueEqualOverRegion(id) => id \notin remove_contracts /\ ~AddedOver(id)

\* the regions of the new contract map, coalesced and sliced again
NewMapRegions ==
    DOMAIN new_contract_map(shards,
        from_unordered_fragments(
            SubRegionResults(contracts, shards, all_acks, current_branches, conn)))

\* amended: the id is kept when, in addition, the region of the old
\* contract is still one region of the new contract map after adjacent
\* equal contracts are coalesced and the map is sliced by CPU shard and
\* user shard
C15_IdsStableOnSameRegion ==
    Emitted =>
        \A id \in DOMAIN contracts :
            ValueEqualOverRegion(id) /\ contracts[id].region \in NewMapRegions
                => id \notin remove_contracts /\ ~AddedOver(id)

\* a contract keeps its id while both of its neighbours are replaced
C15_Witness ==
    /\ Emitted /\ calls = 1
    /\ Cardinality(KeptIds) = 1
    /\ Cardinality(remove_contracts) = 2
    /\ \A id \in KeptIds : ValueEqualOverRegion(id) /\ ~AddedOver(id)

(***************************************************************************)
(* C16: no contract spans a CPU shard or user shard boundary.  Every       *)
(* added contract and every old contract that keeps its id has a region    *)
(* of exactly one CPU shard whose keys lie within one user shard, also     *)
(* when equal contracts were coalesced across such a boundary.             *)
(***************************************************************************)
C16_NoSpanning ==
    Emitted =>
        \A id \in DOMAIN KeptAndAdded :
            /\ Cardinality(KeptAndAdded[id].region.cpus) = 1
            /\ \E i \in DOMAIN shards : KeptAndAdded[id].region.keys \subseteq shards[i].keys

\* the new contracts are equal on all cells, across the CPU shard and the
\* user shard boundary, and the old contract that spanned the user shards
\* is replaced
C16_Witness ==
    /\ Emitted /\ calls = 1
    /\ Cardinality(DOMAIN shards) = 2
    /\ \E id \in remove_contracts : contracts[id].region.keys = KeyCells
    /\ \A a, b \in DOMAIN KeptAndAdded : KeptAndAdded[a].contract = KeptAndAdded[b].contract
    /\ Cardinality(DOMAIN add_contracts) >= 2

\* the old contract that covers a cell
ContractAt(cell) == CHOOSE id \in DOMAIN contracts : cell \in Cells(contracts[id].region)

\* at a cell the old and the new contract have the same primary server and
\* that server's ack fragment is primary_need_branch
SamePrimaryNeedsBranch(cell) ==
    LET id == ContractAt(cell)
        old == contracts[id].contract
    IN  /\ HasValue(old.primary)
        /\ HasValue(CellResult(id, cell).primary)
        /\ Deref(CellResult(id, cell).primary).server = Deref(old.primary).server
        /\ Deref(old.primary).server \in DOMAIN FragsAt(id, cell)
        /\ FragsAt(id, cell)[Deref(old.primary).server].state = "primary_need_branch"

\* the branch the primary of a cell asks for
RequestedBranch(cell) ==
    Deref(FragsAt(ContractAt(cell), cell)[
            Deref(contracts[ContractAt(cell)].contract.primary).server].branch)

\* the entries of register_current_branches_out whose region has the cell
RegisteredAt(cell) == {rb \in register_current_branches : cell \in Cells(rb[1])}

(***************************************************************************)
(* C20: branch registration.  A cell lies in a registered sub-region, with *)
(* the branch the primary asked for, exactly when the old and the new      *)
(* contract have the same primary server there and that server's ack       *)
(* fragment is primary_need_branch.  Nothing is registered where the       *)
(* primary is cleared or absent, no cell is registered twice, and every    *)
(* registered region lies within one old contract and one user shard.      *)
(***************************************************************************)
C20_BranchRegistration ==
    Emitted =>
        /\ \A cell \in AllCells :
              IF SamePrimaryNeedsBranch(cell)
              THEN /\ Cardinality(RegisteredAt(cell)) = 1
                   /\ \A rb \in RegisteredAt(cell) : rb[2] = RequestedBranch(cell)
              ELSE RegisteredAt(cell) = {}
        /\ \A rb \in register_current_branches :
              /\ \E id \in DOMAIN contracts : Cells(rb[1]) \subseteq Cells(contracts[id].region)
              /\ \E i \in DOMAIN shards : rb[1].keys \subseteq shards[i].keys

\* one contract has two sub-regions that are both registered, while the
\* contract of another cell has a primary and no branch is registered there
C20_Witness ==
    /\ Emitted /\ calls = 1
    /\ \E id \in DOMAIN contracts : \E ra, rb \in register_current_branches :
          /\ ra[1] # rb[1]
          /\ Cells(ra[1]) \cup Cells(rb[1]) \subseteq Cells(contracts[id].region)
    /\ \E cell \in AllCells :
          /\ HasValue(contracts[ContractAt(cell)].contract.primary)
          /\ RegisteredAt(cell) = {}

(***************************************************************************)
(* C24: in every contract returned, a primary that is set is a member of   *)
(* voters or of temp_voters.  An elected primary is in voters; an existing *)
(* primary that is in neither set after a voter change is committed or     *)
(* the config changed is cleared in the same invocation.                   *)
(***************************************************************************)
C24_PrimaryIsVoter ==
    Returned /\ HasValue(new_c.primary) =>
        /\ NewPrimaryServer \in AllVoters(new_c)
        /\ ~HasValue(old_c.primary) => NewPrimaryServer \in new_c.voters

\* the voter change that is committed leaves the primary out of voters;
\* every server is connected and the primary is still a replica, and it is
\* cleared
C24_Witness ==
    /\ Returned /\ TempVotersCleared
    /\ HasValue(old_c.primary)
    /\ OldPrimary \in old_c.voters
    /\ OldPrimary \notin AllVoters(new_c)
    /\ OldPrimary \in new_c.replicas
    /\ conn = FullConn
    /\ ~HasValue(new_c.primary)

\* the invocation clears the primary because the hand-over completed
HandOverCompleted ==
    /\ Returned
    /\ HasValue(old_c.primary) /\ PrimaryNotKilled
    /\ OldHandOver = Some(config.primary_replica)
    /\ Acked(OldPrimary, "primary_ready")
    /\ ~HasValue(new_c.primary)

(***************************************************************************)
(* C22: hand-over makes the designated primary a valid candidate.          *)
(* Whenever an invocation clears the primary because the hand-over         *)
(* completed, config.primary_replica is a member of voters in the emitted  *)
(* contract, also when a voter change is committed in the same invocation. *)
(***************************************************************************)
C22_DesignatedIsVoter ==
    HandOverCompleted => config.primary_replica \in new_c.voters

(***************************************************************************)
(* C25: voters never changes without a joint-consensus step.  In an        *)
(* invocation whose old contract has no temp_voters the new voters equals  *)
(* the old voters; voters only takes the value temp_voters had in the      *)
(* preceding contract, so in a sequence that starts at rest a change of    *)
(* voters from V to V' comes after an emitted contract with voters V and   *)
(* temp_voters V'; and while temp_voters is present a change of            *)
(* config.voting_replicas does not alter it: it stays or is committed.     *)
(***************************************************************************)
C25_JointConsensus ==
    Returned =>
        /\ ~HasValue(old_c.temp_voters) => new_c.voters = old_c.voters
        /\ new_c.voters # old_c.voters =>
              /\ old_c.temp_voters = Some(new_c.voters)
              /\ calls >= 2
        /\ HasValue(old_c.temp_voters) => new_c.temp_voters \in {old_c.temp_voters, None}

\* a voter change is committed after the config changed again: the new
\* voters are the temp_voters of the preceding contract and not the voting
\* replicas of the config
C25_Witness ==
    /\ Returned
    /\ new_c.voters # old_c.voters
    /\ new_c.voters # config.voting_replicas
    /\ old_c.temp_voters = Some(new_c.voters)

\* the voters of the new contract the coordinator has a report from: they
\* sent a secondary_need_primary ack, which carries their version
ReportingVoters == {v \in new_c.voters : Acked(v, "secondary_need_primary")}
MajorityReports == 2 * Cardinality(ReportingVoters) > Cardinality(new_c.voters)

\* the eligible_candidates of this invocation
EligibleNow == eligible_candidates(new_c.voters, acks, visible_voters)

\* the reporting voters with the greatest reported version
LatestReporters ==
    {v \in ReportingVoters : \A w \in ReportingVoters : AckedVersion(w) <= AckedVersion(v)}

ContractAfter(cell) ==
    KeptAndAdded[CHOOSE id \in DOMAIN KeptAndAdded :
                    cell \in Cells(KeptAndAdded[id].region)].contract

\* the acks keyed on ids of contracts that are not in the table any more
StaleKeys == {k \in DOMAIN all_acks : k[2] \notin DOMAIN contracts}

(***************************************************************************)
(* C21: only the acks sent for a contract influence its successor.  The    *)
(* contract computed for every cell of the region of old contract C is     *)
(* what calculate_contract returns on C, the config of the cell and the    *)
(* fragments of the acks keyed (server, C.id) alone; the acks keyed on     *)
(* other contract ids, also ids of contracts that covered the region       *)
(* before, do not enter, so a stale primary_ready or secondary_streaming   *)
(* ack never commits a voter change, completes a hand-over or elects a     *)
(* primary.                                                                *)
(***************************************************************************)
C21_OwnAcksOnly ==
    Emitted =>
        \A cell \in AllCells : ContractAfter(cell) = CellResult(ContractAt(cell), cell)

\* the second run: a contract under hand-over has no ack of its own, the
\* primary_ready ack of its primary for the contract it replaced is still
\* in the ack map, and the primary is kept
C21_Witness ==
    /\ Emitted /\ calls = 2
    /\ \E cell \in AllCells :
          LET c == contracts[ContractAt(cell)].contract
          IN  /\ HasValue(c.primary)
              /\ Deref(c.primary).hand_over = Some(shards[ShardOf(cell)].config.primary_replica)
              /\ \A s \in Servers : <<s, ContractAt(cell)>> \notin DOMAIN all_acks
              /\ \E k \in StaleKeys :
                    /\ k[1] = Deref(c.primary).server
                    /\ all_acks[k].state = "primary_ready"
              /\ conn = FullConn
              /\ ContractAfter(cell) = c

(***************************************************************************)
(* Notions for the proxy replica, written from the statements.             *)
(***************************************************************************)
\* this step receives a message of ready_mailbox, that is, runs on_ready
ReadyReceived == \E m \in in_flight \ in_flight' : m.to = ReadyMailbox

\* this step is a call of kind made on the proxy
CallOf(kind) ==
    /\ calls' = calls + 1
    /\ Len(requests') = calls + 1
    /\ requests'[calls + 1].kind = kind

FatalAssertion == pc' = "aborted"

(***************************************************************************)
(* C26: readiness of a proxy replica is one-way and gates synchronous      *)
(* traffic.  The proxy starts not ready; it becomes ready only in          *)
(* on_ready and never becomes not ready again; an on_ready on a ready      *)
(* proxy is a fatal assertion; the registration is marked readable only    *)
(* in the on_ready that makes the proxy ready; do_read and do_write_sync   *)
(* on a proxy that is not ready are fatal assertions and send nothing;     *)
(* do_write_async sends the write to the client's write_async_mailbox      *)
(* whether the proxy is ready or not.                                      *)
(***************************************************************************)
C26_ReadinessOneWay ==
    /\ ~is_ready /\ ~readable
    /\ [][/\ is_ready => is_ready'
          /\ is_ready' # is_ready => ReadyReceived
          /\ ReadyReceived /\ ~is_ready => is_ready' /\ ~FatalAssertion
          /\ ReadyReceived /\ is_ready => FatalAssertion
          /\ readable' # readable => readable' /\ ReadyReceived /\ ~is_ready
          /\ \A kind \in {"read", "write_sync"} :
                /\ CallOf(kind) /\ ~is_ready => FatalAssertion /\ in_flight' = in_flight
                /\ CallOf(kind) /\ is_ready => ~FatalAssertion
          /\ CallOf("write_async") =>
                /\ ~FatalAssertion
                /\ in_flight' \ in_flight = {Message(WriteAsyncMailbox, calls + 1, NoAddress)}
         ]_vars

\* a write was forwarded by do_write_async before the proxy was ready,
\* and then a do_read on the proxy, still not ready, ended the process
C26_Witness ==
    /\ pc = "aborted"
    /\ ~is_ready
    /\ Len(requests) = 2
    /\ requests[1].kind = "write_async"
    /\ Message(WriteAsyncMailbox, 1, NoAddress) \in in_flight
    /\ requests[2] = Request("read", "aborted", None)

\* the client has replied to call op: its response is on the way
ClientReplied(op) ==
    \E m \in in_flight : m.op = op /\ m.to[1] \in {"response_mailbox", "reply_mailbox"}

Waiting(op) == op \in DOMAIN requests /\ requests[op].state = "waiting"

\* call op has returned with the response to it in *response_out
ReturnedWithResponse(op) ==
    /\ op \in DOMAIN requests
    /\ requests[op].state = "returned"
    /\ requests[op].response_out = Some(op)

\* call op was interrupted, or the process has ended
Interrupted(op) ==
    \/ op \in DOMAIN requests /\ requests[op].state = "interrupted"
    \/ pc = "aborted"

(***************************************************************************)
(* C27: request/response pairing in the proxy replica.  For do_read and    *)
(* for do_write_sync on a ready proxy, the reply address sent to the       *)
(* client is the address of the response mailbox created in that call,    *)
(* so when the client has replied and the call is not interrupted, the     *)
(* response is stored in response_out and the call eventually returns.     *)
(***************************************************************************)
C27_RequestResponsePaired ==
    /\ [](\A m \in in_flight :
            m.to \in {ReadMailbox, WriteSyncMailbox} => m.reply_to = ResponseMailbox(m.op))
    /\ \A op \in 1..MaxOps :
          (Waiting(op) /\ ClientReplied(op)) ~> (ReturnedWithResponse(op) \/ Interrupted(op))

====
